---------------------------- MODULE Spec2Model ----------------------------
(***************************************************************************)
(* Pose / keypoint detection pipeline of labelme/_automation/              *)
(* pose_estimation.py: the PoseEstimator class, get_shapes_from_poses and  *)
(* the two module-level entry points detect_poses and estimate_poses.      *)
(*                                                                         *)
(* Numbers.  Confidences, scores and thresholds are Python floats; the     *)
(* model keeps them as integers counted in fortieths (1.0 is 40), written  *)
(* Pct(p) for p percent, so that the halving of line 618 stays exact.      *)
(* Coordinates are integers.  Python's None is the empty tuple and a       *)
(* present value v is the one-element tuple <<v>>.  Python list index j    *)
(* is TLA+ index j + 1.                                                    *)
(***************************************************************************)
EXTENDS Integers, Sequences, FiniteSets, TLC

(* ------------------------------ bounds --------------------------------- *)

\* longest list of known boxes handed to estimate_poses
MaxBoxes == 2

\* most instances a backend returns from one full-image inference
MaxFull == 2

(* ----------------------------- constants ------------------------------- *)

COCO_KEYPOINTS ==
    << "nose", "left_eye", "right_eye", "left_ear", "right_ear",
       "left_shoulder", "right_shoulder", "left_elbow", "right_elbow",
       "left_wrist", "right_wrist", "left_hip", "right_hip",
       "left_knee", "right_knee", "left_ankle", "right_ankle" >>

COCO_SKELETON ==
    << <<5, 7>>, <<7, 9>>, <<6, 8>>, <<8, 10>>, <<5, 6>>, <<5, 11>>,
       <<6, 12>>, <<11, 12>>, <<11, 13>>, <<13, 15>>, <<12, 14>>,
       <<14, 16>>, <<0, 1>>, <<0, 2>>, <<1, 3>>, <<2, 4>>, <<0, 5>>,
       <<0, 6>> >>

\* p percent, in fortieths
Pct(p) == (p * 2) \div 5

\* "keypointrcnn_resnet50_fpn", the default of pose_config.get("model_name", ...)
DEFAULT_MODEL_NAME == "keypointrcnn_resnet50_fpn"

\* pose_config.get("conf_threshold", 0.5)
DEFAULT_CONF_THRESHOLD == Pct(50)

\* pose_config.get("keypoint_threshold", 0.2)
DEFAULT_KEYPOINT_THRESHOLD == Pct(20)

\* advanced_params.get("max_poses", 20)
DEFAULT_MAX_POSES == 20

\* advanced_params.get("min_keypoints", 5)
DEFAULT_MIN_KEYPOINTS == 5

\* a clamped box narrower or lower than this many pixels is skipped
MIN_BOX_SIDE == 10

(* ------------------------------ Python --------------------------------- *)

None == << >>

Some(v) == << v >>

\* d.get(key, default) on an optional field
Get(field, default) == IF field = None THEN default ELSE field[1]

\* a or b, for an optional number a: None and 0 are falsy
OrNumber(a, b) == IF a # None /\ a[1] # 0 THEN a[1] ELSE b

\* a or b, for an optional string a: None and "" are falsy
OrString(a, b) == IF a # None /\ a[1] # "" THEN a[1] ELSE b

\* the advanced-parameter dictionary with no key set
EmptyDict == [max_poses |-> None, min_keypoints |-> None]

\* a or b, for an optional dictionary a: None and {} are falsy
OrDict(a, b) == IF a # None /\ a[1] # EmptyDict THEN a[1] ELSE b

\* truth value of an optional boolean: None and False are falsy
Truthy(a) == a # None /\ a[1] = TRUE

Max2(a, b) == IF a >= b THEN a ELSE b

Min2(a, b) == IF a <= b THEN a ELSE b

\* model_name.startswith("rtmpose"), over the names the model draws from
StartsWithRtmpose(name) ==
    name \in {"rtmpose_tiny", "rtmpose_s", "rtmpose_m", "rtmpose_l", "rtmpose_x"}


(* -------------------------- PoseEstimator ------------------------------ *)

\* _load_yolov7_pose_model: line 174 reads self.params, an attribute no line
\* of the class assigns, so the AttributeError is caught at line 228 and
\* re-raised as ImportError whatever the environment holds
LoadYolov7PoseModel(env) == [raised |-> TRUE, model_name |-> "yolov7_w6_pose"]

\* _load_rtmpose_model: raises when mmpose cannot be imported or init_model
\* fails (env.mmpose_ok false); a name outside rtmpose_configs is replaced by
\* "rtmpose_s" (lines 273-275)
LoadRtmposeModel(model_name, env) ==
    IF ~env.mmpose_ok
    THEN [raised |-> TRUE, model_name |-> model_name]
    ELSE [raised |-> FALSE,
          model_name |-> IF model_name \in {"rtmpose_tiny", "rtmpose_s",
                                            "rtmpose_m", "rtmpose_l"}
                         THEN model_name ELSE "rtmpose_s"]

\* _load_keypointrcnn_model: raises when torchvision or its weights fail
LoadKeypointrcnnModel(model_name, env) ==
    [raised |-> ~env.keypointrcnn_ok, model_name |-> model_name]

\* _load_model: dispatch on the backend-kind flags; every error is re-raised
LoadModel(model_name, is_rtmpose, is_keypointrcnn, env) ==
    IF is_rtmpose THEN LoadRtmposeModel(model_name, env)
    ELSE IF is_keypointrcnn THEN LoadKeypointrcnnModel(model_name, env)
    ELSE LoadYolov7PoseModel(env)

\* PoseEstimator.__init__(model_name, device, conf_threshold,
\* keypoint_threshold, advanced_params, draw_skeleton) with the configuration
\* cfg that ConfigLoader returns, in the environment env.  The result is
\* [raised, est]: est is the constructed object when raised is FALSE.
PoseEstimatorInit(a, cfg, env) ==
    LET name0 == OrString(a.model_name, Get(cfg.model_name, DEFAULT_MODEL_NAME))
        conf == OrNumber(a.conf_threshold,
                         Get(cfg.conf_threshold, DEFAULT_CONF_THRESHOLD))
        dev0 == OrString(a.device, Get(cfg.device, "cpu"))
        kthr == OrNumber(a.keypoint_threshold,
                         Get(cfg.keypoint_threshold, DEFAULT_KEYPOINT_THRESHOLD))
        adv == OrDict(a.advanced_params, Get(cfg.advanced, EmptyDict))
        draw == IF a.draw_skeleton # None THEN a.draw_skeleton[1]
                ELSE Get(cfg.draw_skeleton, TRUE)
        is_rtmpose == StartsWithRtmpose(name0)
        is_krcnn0 == name0 = "keypointrcnn_resnet50_fpn"
        \* lines 107-117: neither RTMPose nor KeypointRCNN and the YOLOv7
        \* package cannot be imported: switch to KeypointRCNN
        switch == ~is_rtmpose /\ ~is_krcnn0 /\ ~env.yolov7_importable
        name1 == IF switch THEN "keypointrcnn_resnet50_fpn" ELSE name0
        is_krcnn == is_krcnn0 \/ switch
        dev == IF env.cuda_available /\ dev0 = "cuda" THEN "cuda" ELSE "cpu"
        loaded == LoadModel(name1, is_rtmpose, is_krcnn, env)
    IN  [raised |-> ~env.has_torch \/ loaded.raised,
         est |-> [model_name |-> loaded.model_name,
                  is_rtmpose |-> is_rtmpose,
                  is_keypointrcnn |-> is_krcnn,
                  device |-> dev,
                  conf_threshold |-> conf,
                  keypoint_threshold |-> kthr,
                  advanced_params |-> adv,
                  draw_skeleton |-> draw]]

(* ---------------------- full-image detection --------------------------- *)

\* A backend answers one inference call with resp = [raised, instances]:
\* raised when the call throws, else the instances it found, each
\* [box, score, keypoints] with keypoints a list of rows <<x, y, c>>.

\* sum(1 for _, _, conf in kpts if conf >= self.keypoint_threshold)
VisibleKeypoints(kpts, keypoint_threshold) ==
    Cardinality({j \in 1..Len(kpts) : kpts[j][3] >= keypoint_threshold})

\* lines 611-619: [x, y, visibility] -> [x, y, confidence], vis / 2.0
KeypointrcnnRow(kpt) == << kpt[1], kpt[2], IF kpt[3] > 0 THEN kpt[3] \div 2 ELSE 0 >>

KeypointrcnnKptsList(kpts) == [j \in 1..Len(kpts) |-> KeypointrcnnRow(kpts[j])]

\* the loop of lines 611-632 from instance i on, over the instances the score
\* mask kept; it stops as soon as max_poses poses have been appended
RECURSIVE KeypointrcnnLoop(_, _, _, _, _)
KeypointrcnnLoop(est, kept, i, keypoints_list, scores_list) ==
    IF i > Len(kept) THEN [keypoints |-> keypoints_list, scores |-> scores_list]
    ELSE LET kpts_list == KeypointrcnnKptsList(kept[i].keypoints)
             min_keypoints == Get(est.advanced_params.min_keypoints,
                                  DEFAULT_MIN_KEYPOINTS)
             max_poses == Get(est.advanced_params.max_poses, DEFAULT_MAX_POSES)
         IN  IF VisibleKeypoints(kpts_list, est.keypoint_threshold) >= min_keypoints
             THEN IF Len(keypoints_list) + 1 >= max_poses
                  THEN [keypoints |-> Append(keypoints_list, kpts_list),
                        scores |-> Append(scores_list, kept[i].score)]
                  ELSE KeypointrcnnLoop(est, kept, i + 1,
                                        Append(keypoints_list, kpts_list),
                                        Append(scores_list, kept[i].score))
             ELSE KeypointrcnnLoop(est, kept, i + 1, keypoints_list, scores_list)

\* PoseEstimator._detect_keypointrcnn: no try/except, a backend error
\* propagates to the caller
DetectKeypointrcnn(est, resp) ==
    IF resp.raised THEN [raised |-> TRUE, keypoints |-> << >>, scores |-> << >>]
    ELSE LET kept == SelectSeq(resp.instances,
                               LAMBDA p : p.score >= est.conf_threshold)
             r == KeypointrcnnLoop(est, kept, 1, << >>, << >>)
         IN  [raised |-> FALSE, keypoints |-> r.keypoints, scores |-> r.scores]

\* the loop of lines 539-551 from instance i on
RECURSIVE RtmposeLoop(_, _, _, _, _)
RtmposeLoop(est, insts, i, valid_poses, valid_scores) ==
    IF i > Len(insts) THEN [keypoints |-> valid_poses, scores |-> valid_scores]
    ELSE LET min_keypoints == Get(est.advanced_params.min_keypoints,
                                  DEFAULT_MIN_KEYPOINTS)
             max_poses == Get(est.advanced_params.max_poses, DEFAULT_MAX_POSES)
             visible_keypoints ==
                 VisibleKeypoints(insts[i].keypoints, est.keypoint_threshold)
         IN  IF visible_keypoints >= min_keypoints
                /\ insts[i].score >= est.conf_threshold
             THEN IF Len(valid_poses) + 1 >= max_poses
                  THEN [keypoints |-> Append(valid_poses, insts[i].keypoints),
                        scores |-> Append(valid_scores, insts[i].score)]
                  ELSE RtmposeLoop(est, insts, i + 1,
                                   Append(valid_poses, insts[i].keypoints),
                                   Append(valid_scores, insts[i].score))
             ELSE RtmposeLoop(est, insts, i + 1, valid_poses, valid_scores)

\* PoseEstimator._detect_rtmpose: the whole body is inside try/except, an
\* error yields ([], [])
DetectRtmpose(est, resp) ==
    IF resp.raised THEN [raised |-> FALSE, keypoints |-> << >>, scores |-> << >>]
    ELSE LET r == RtmposeLoop(est, resp.instances, 1, << >>, << >>)
         IN  [raised |-> FALSE, keypoints |-> r.keypoints, scores |-> r.scores]

\* PoseEstimator._detect_yolov7_pose: line 423 reads self.imgsz, which no
\* line assigns (the loader sets self.img_size); the AttributeError is not
\* caught in the method
DetectYolov7Pose(est, resp) ==
    [raised |-> TRUE, keypoints |-> << >>, scores |-> << >>]

\* PoseEstimator.detect_poses: dispatch on the model name
EstimatorDetectPoses(est, resp) ==
    IF StartsWithRtmpose(est.model_name) THEN DetectRtmpose(est, resp)
    ELSE IF est.model_name = "yolov7_w6_pose" THEN DetectYolov7Pose(est, resp)
    ELSE IF est.model_name = "keypointrcnn_resnet50_fpn"
         THEN DetectKeypointrcnn(est, resp)
    ELSE DetectKeypointrcnn(est, resp)

(* ----------------------- box-guided detection -------------------------- *)

\* lines 823-829: int() of each coordinate (the model's coordinates are
\* integers already), then the clamp into the image
ClampBox(box, width, height) ==
    << Max2(0, Min2(box[1], width - 1)), Max2(0, Min2(box[2], height - 1)),
       Max2(0, Min2(box[3], width - 1)), Max2(0, Min2(box[4], height - 1)) >>

\* line 832: if x2 - x1 < 10 or y2 - y1 < 10: continue
BoxTooSmall(c) == c[3] - c[1] < MIN_BOX_SIDE \/ c[4] - c[2] < MIN_BOX_SIDE

\* lines 860-862: crop coordinates moved back by the crop origin
AdjustKeypoints(kpts, x1, y1) ==
    [j \in 1..Len(kpts) |-> << kpts[j][1] + x1, kpts[j][2] + y1, kpts[j][3] >>]

\* kpts[kpts[:, 2] < self.keypoint_threshold, 2] = 0
ZeroLowKeypoints(kpts, keypoint_threshold) ==
    [j \in 1..Len(kpts) |->
        << kpts[j][1], kpts[j][2],
           IF kpts[j][3] < keypoint_threshold THEN 0 ELSE kpts[j][3] >>]

\* lines 903-917: intersection and union areas of the clamped box c and a
\* predicted box p; no intersection gives num = 0
Iou(c, p) ==
    LET ix1 == Max2(c[1], p[1])
        iy1 == Max2(c[2], p[2])
        ix2 == Min2(c[3], p[3])
        iy2 == Min2(c[4], p[4])
        intersection == (ix2 - ix1) * (iy2 - iy1)
        box_area == (c[3] - c[1]) * (c[4] - c[2])
        pred_area == (p[3] - p[1]) * (p[4] - p[2])
    IN  IF ix2 > ix1 /\ iy2 > iy1
        THEN [num |-> intersection, den |-> box_area + pred_area - intersection]
        ELSE [num |-> 0, den |-> 1]

\* a / b > c / d for a, c >= 0 and b, d > 0, by the continued fractions of
\* the two ratios (the products a * d and c * b leave TLC's integers)
RECURSIVE RatioGreater(_, _, _, _)
RatioGreater(a, b, c, d) ==
    IF a \div b # c \div d THEN a \div b > c \div d
    ELSE IF a % b = 0 THEN FALSE
    ELSE IF c % d = 0 THEN TRUE
    ELSE RatioGreater(d, c % d, b, a % b)

\* best_iou >= 0.3
IouAccepted_Inclusive(best) == ~RatioGreater(3, 10, best.num, best.den)

\* best_iou > 0.3
IouAccepted(best) == RatioGreater(best.num, best.den, 3, 10)

\* the loop of lines 901-921 from predicted box i on: best holds best_iou as
\* a ratio and best_idx (a Python index, -1 for none)
RECURSIVE BestIouLoop(_, _, _, _)
BestIouLoop(c, insts, i, best) ==
    IF i > Len(insts) THEN best
    ELSE LET iou == Iou(c, insts[i].box)
         IN  IF iou.num > 0 /\ RatioGreater(iou.num, iou.den, best.num, best.den)
             THEN BestIouLoop(c, insts, i + 1,
                              [num |-> iou.num, den |-> iou.den, idx |-> i - 1])
             ELSE BestIouLoop(c, insts, i + 1, best)

\* lines 894-935: the full-image predictions matched against the clamped box
FallbackMatch(est, c, insts) ==
    LET best == BestIouLoop(c, insts, 1, [num |-> 0, den |-> 1, idx |-> -1])
    IN  IF Len(insts) > 0 /\ best.idx >= 0 /\ IouAccepted(best)
        THEN [found |-> TRUE,
              keypoints |-> ZeroLowKeypoints(insts[best.idx + 1].keypoints,
                                             est.keypoint_threshold),
              score |-> insts[best.idx + 1].score]
        ELSE [found |-> FALSE, keypoints |-> << >>, score |-> 0]

\* line 876: the full-image fallback is entered only while no pose has been
\* appended yet
FallbackEntered(keypoints_list) == Len(keypoints_list) = 0

\* One iteration of the loop of _detect_keypointrcnn_from_boxes (lines
\* 822-935) for `box`, with the backend's answer `region` to the crop and
\* `full` to the whole image.  event names the branch taken.
KeypointrcnnBoxIteration(est, image, box, region, full, keypoints_list, scores_list) ==
    LET c == ClampBox(box, image.width, image.height)
        same(ev) == [raised |-> FALSE, event |-> ev,
                     keypoints_list |-> keypoints_list,
                     scores_list |-> scores_list]
        failed(ev) == [raised |-> TRUE, event |-> ev,
                       keypoints_list |-> keypoints_list,
                       scores_list |-> scores_list]
    IN  IF BoxTooSmall(c) THEN same("skipped")
        ELSE IF region.raised THEN failed("region_raised")
        ELSE IF Len(region.instances) > 0
        THEN LET first == region.instances[1]
                 adjusted == AdjustKeypoints(first.keypoints, c[1], c[2])
             IN  IF first.score >= est.conf_threshold
                 THEN [raised |-> FALSE, event |-> "region_pose",
                       keypoints_list |->
                           Append(keypoints_list,
                                  ZeroLowKeypoints(adjusted, est.keypoint_threshold)),
                       scores_list |-> Append(scores_list, first.score)]
                 ELSE same("region_low_score")
        ELSE IF FallbackEntered(keypoints_list)
        THEN IF full.raised THEN failed("full_raised")
             ELSE LET m == FallbackMatch(est, c, full.instances)
                  IN  IF m.found
                      THEN [raised |-> FALSE, event |-> "fallback_pose",
                            keypoints_list |-> Append(keypoints_list, m.keypoints),
                            scores_list |-> Append(scores_list, m.score)]
                      ELSE same("fallback_none")
        ELSE same("no_fallback")

\* events of an iteration that ran the crop inference / the full-image inference
RegionEvents == {"region_raised", "region_pose", "region_low_score",
                 "full_raised", "fallback_pose", "fallback_none", "no_fallback"}

FullEvents == {"full_raised", "fallback_pose", "fallback_none"}

\* PoseEstimator._detect_rtmpose_from_boxes (lines 748-809): one top-down
\* call over all the boxes, no box is filtered out, no try/except
DetectRtmposeFromBoxes(est, boxes, resp) ==
    IF resp.raised THEN [raised |-> TRUE, keypoints |-> << >>, scores |-> << >>]
    ELSE [raised |-> FALSE,
          keypoints |-> [i \in 1..Len(resp.instances) |->
                            ZeroLowKeypoints(resp.instances[i].keypoints,
                                             est.keypoint_threshold)],
          scores |-> [i \in 1..Len(resp.instances) |-> resp.instances[i].score]]

\* PoseEstimator._detect_yolov7_pose_from_boxes (lines 660-746): the first
\* box that is not skipped reads self.imgsz (line 689), the AttributeError is
\* caught at line 742; with every box skipped the lists stay empty
DetectYolov7PoseFromBoxes(est, boxes, resp) ==
    [raised |-> FALSE, keypoints |-> << >>, scores |-> << >>]

\* PoseEstimator.detect_poses_from_boxes for the variants that answer in one
\* backend call (the KeypointRCNN loop is stepped box by box)
DetectPosesFromBoxesSingle(est, boxes, resp) ==
    IF est.is_rtmpose THEN DetectRtmposeFromBoxes(est, boxes, resp)
    ELSE DetectYolov7PoseFromBoxes(est, boxes, resp)

(* -------------------------- shape projection --------------------------- *)

\* the TLA+ indices 1..n, in order
Positions(n) == [j \in 1..n |-> j]

\* point shapes that also take the keypoints of confidence zero
PointShapes_ZeroIncluded(kpts, group_id) ==
    LET vis == SelectSeq(Positions(Len(kpts)), LAMBDA j : kpts[j][3] >= 0)
    IN  [k \in 1..Len(vis) |->
            [label |-> COCO_KEYPOINTS[vis[k]],
             points |-> << << kpts[vis[k]][1], kpts[vis[k]][2] >> >>,
             group_id |-> group_id,
             shape_type |-> "point",
             flags |-> {}]]

\* lines 1173-1187: one "point" shape per keypoint with conf > 0
PointShapes(kpts, group_id) ==
    LET vis == SelectSeq(Positions(Len(kpts)), LAMBDA j : kpts[j][3] > 0)
    IN  [k \in 1..Len(vis) |->
            [label |-> COCO_KEYPOINTS[vis[k]],
             points |-> << << kpts[vis[k]][1], kpts[vis[k]][2] >> >>,
             group_id |-> group_id,
             shape_type |-> "point",
             flags |-> {}]]

\* line shapes for the edges with either end above zero
LineShapes_EitherEnd(kpts, group_id) ==
    LET drawn == SelectSeq(Positions(Len(COCO_SKELETON)),
                           LAMBDA e : kpts[COCO_SKELETON[e][1] + 1][3] > 0
                                    \/ kpts[COCO_SKELETON[e][2] + 1][3] > 0)
    IN  [k \in 1..Len(drawn) |->
            LET p1 == kpts[COCO_SKELETON[drawn[k]][1] + 1]
                p2 == kpts[COCO_SKELETON[drawn[k]][2] + 1]
            IN  [label |-> "limb_" \o COCO_KEYPOINTS[COCO_SKELETON[drawn[k]][1] + 1]
                               \o "_" \o COCO_KEYPOINTS[COCO_SKELETON[drawn[k]][2] + 1],
                 points |-> << << p1[1], p1[2] >>, << p2[1], p2[2] >> >>,
                 group_id |-> group_id,
                 shape_type |-> "line",
                 flags |-> {}]]

\* lines 1193-1211: one "line" shape per skeleton edge with both ends > 0
LineShapes(kpts, group_id) ==
    LET drawn == SelectSeq(Positions(Len(COCO_SKELETON)),
                           LAMBDA e : kpts[COCO_SKELETON[e][1] + 1][3] > 0
                                    /\ kpts[COCO_SKELETON[e][2] + 1][3] > 0)
    IN  [k \in 1..Len(drawn) |->
            LET p1 == kpts[COCO_SKELETON[drawn[k]][1] + 1]
                p2 == kpts[COCO_SKELETON[drawn[k]][2] + 1]
            IN  [label |-> "limb_" \o COCO_KEYPOINTS[COCO_SKELETON[drawn[k]][1] + 1]
                               \o "_" \o COCO_KEYPOINTS[COCO_SKELETON[drawn[k]][2] + 1],
                 points |-> << << p1[1], p1[2] >>, << p2[1], p2[2] >> >>,
                 group_id |-> group_id,
                 shape_type |-> "line",
                 flags |-> {}]]

\* the pose makes the function throw IndexError: a visible keypoint beyond
\* the 17 names (line 1177), or a skeleton end beyond the pose's rows while
\* lines are drawn (lines 1194-1195)
PoseIndexError(kpts, draw_skeleton) ==
    \/ \E j \in 1..Len(kpts) : j > Len(COCO_KEYPOINTS) /\ kpts[j][3] > 0
    \/ /\ Truthy(draw_skeleton)
       /\ \E e \in 1..Len(COCO_SKELETON) :
             \/ COCO_SKELETON[e][1] + 1 > Len(kpts)
             \/ COCO_SKELETON[e][2] + 1 > Len(kpts)

\* group ids counted from one instead of from zero
PoseGroupId_FromOne(start_group_id, i) == start_group_id + i + 1

\* the group id of pose i (a Python index), line 1170
PoseGroupId(start_group_id, i) == start_group_id + i

\* the shapes of poses i.. (Python index i) appended to shapes
RECURSIVE ShapesLoop(_, _, _, _, _)
ShapesLoop(keypoints, start_group_id, draw_skeleton, i, shapes) ==
    IF i >= Len(keypoints) THEN shapes
    ELSE LET kpts == keypoints[i + 1]
             group_id == PoseGroupId(start_group_id, i)
         IN  ShapesLoop(keypoints, start_group_id, draw_skeleton, i + 1,
                        shapes \o PointShapes(kpts, group_id)
                               \o (IF Truthy(draw_skeleton)
                                   THEN LineShapes(kpts, group_id) ELSE << >>))

\* get_shapes_from_poses(keypoints, scores, start_group_id, draw_skeleton)
GetShapesFromPoses(keypoints, scores, start_group_id, draw_skeleton) ==
    IF \E i \in 1..Len(keypoints) : PoseIndexError(keypoints[i], draw_skeleton)
    THEN [raised |-> TRUE, shapes |-> << >>]
    ELSE [raised |-> FALSE,
          shapes |-> ShapesLoop(keypoints, start_group_id, draw_skeleton, 0, << >>)]

(* ------------------------------ inputs --------------------------------- *)

\* the image of every call: 640 x 480
Image == [width |-> 640, height |-> 480]

BoxA == << 100, 50, 300, 400 >>

\* overlaps BoxA
BoxB == << 120, 60, 320, 420 >>

\* 65 px wide as given, 4 px wide once clamped into the image
BoxEdge == << 635, 50, 700, 400 >>

KnownBoxes == {BoxA, BoxB, BoxEdge}

BoxLists == UNION {[1..n -> KnownBoxes] : n \in 0..MaxBoxes}

\* the group id of the i-th known rectangle when it carries one: 7, 3, 10,
\* 6, ... (distinct, not consecutive)
BoxIdAt(i) == (7 * i) % 11

\* existing_person_boxes_ids: absent, or one entry per box: the group id of
\* each box, or the same with None for the first box (the only entry the code
\* reads, line 1326), or the same with None for the last box
IdLists(n) ==
    {<< >>,
     [i \in 1..n |-> Some(BoxIdAt(i))],
     [i \in 1..n |-> IF i = 1 THEN None ELSE Some(BoxIdAt(i))],
     [i \in 1..n |-> IF i = n THEN None ELSE Some(BoxIdAt(i))]}

StartGroupIds == {5}

\* draw_skeleton as the callers pass it: not given, or True
DrawChoices == {None, Some(TRUE)}

\* the arguments of detect_poses(image, ..., start_group_id, draw_skeleton)
DetectCalls ==
    {[entry |-> "detect", boxes |-> << >>, ids |-> << >>,
      use_detection_results |-> None, start_group_id |-> s, draw_skeleton |-> d] :
        s \in StartGroupIds, d \in DrawChoices}

\* the arguments of estimate_poses(image, ..., existing_person_boxes,
\* existing_person_boxes_ids, use_detection_results, ..., start_group_id,
\* draw_skeleton)
EstimateCalls ==
    UNION {{[entry |-> "estimate", boxes |-> b, ids |-> i,
             use_detection_results |-> u, start_group_id |-> s,
             draw_skeleton |-> d] :
                i \in IdLists(Len(b)), u \in {None, Some(FALSE)},
                s \in StartGroupIds, d \in DrawChoices} : b \in BoxLists}

\* model names a caller passes
ModelNames == {"rtmpose_s", "rtmpose_x", "yolov7_w6_pose", "custom"}

\* constructor arguments besides draw_skeleton, which the entry point hands on
ConstructorArgs(draw_skeleton) ==
    {[model_name |-> m, device |-> None, conf_threshold |-> c,
      keypoint_threshold |-> None, advanced_params |-> None,
      draw_skeleton |-> draw_skeleton] :
        m \in {None} \cup {Some(n) : n \in ModelNames}, c \in {None}}

\* what ConfigLoader().get_pose_estimation_config() holds
NoConfig ==
    [model_name |-> None, conf_threshold |-> None, device |-> None,
     keypoint_threshold |-> None, advanced |-> None, draw_skeleton |-> None]

Configs ==
    {NoConfig,
     [NoConfig EXCEPT !.keypoint_threshold = Some(0)],
     [NoConfig EXCEPT !.advanced = Some([max_poses |-> Some(1),
                                         min_keypoints |-> Some(0)])]}

\* what the machine offers: everything, or all but one of torch, the YOLOv7
\* package, a loadable RTMPose model, a loadable KeypointRCNN model
AllThere ==
    [has_torch |-> TRUE, yolov7_importable |-> TRUE, mmpose_ok |-> TRUE,
     keypointrcnn_ok |-> TRUE, cuda_available |-> FALSE]

Environments ==
    {AllThere,
     [AllThere EXCEPT !.has_torch = FALSE],
     [AllThere EXCEPT !.yolov7_importable = FALSE],
     [AllThere EXCEPT !.mmpose_ok = FALSE],
     [AllThere EXCEPT !.keypointrcnn_ok = FALSE]}

\* rows of a pose: the first n keypoints at confidence hi, the others at lo
Rows(len, n, hi, lo) ==
    [j \in 1..len |-> << 10 * j, 20 * j, IF j <= n THEN hi ELSE lo >>]

KptsAll == Rows(17, 17, Pct(90), 0)

KptsFew == Rows(17, 3, Pct(90), 0)

\* nine keypoints at 0.9, the others at 0.05: above zero, below the default
\* keypoint threshold
KptsLow == Rows(17, 9, Pct(90), Pct(5))

\* a pose of a model with 16 keypoints
KptsShort == Rows(16, 16, Pct(90), 0)

Instance(box, score, kpts) == [box |-> box, score |-> score, keypoints |-> kpts]

\* what a detector may find on the whole image
FullInstances ==
    {Instance(<< 100, 50, 300, 400 >>, Pct(95), KptsAll),
     Instance(<< 400, 300, 600, 450 >>, Pct(95), KptsFew),
     Instance(<< 120, 60, 320, 420 >>, Pct(95), KptsLow),
     Instance(<< 400, 300, 600, 450 >>, Pct(30), KptsAll)}

\* what a detector may find on one box
BoxInstances ==
    {Instance(<< 0, 0, 1, 1 >>, Pct(95), KptsAll),
     Instance(<< 0, 0, 1, 1 >>, Pct(95), KptsFew),
     Instance(<< 0, 0, 1, 1 >>, Pct(95), KptsLow),
     Instance(<< 0, 0, 1, 1 >>, Pct(30), KptsAll),
     Instance(<< 0, 0, 1, 1 >>, Pct(95), KptsShort)}

\* The KeypointRCNN detector is built with box_score_thresh =
\* self.conf_threshold (lines 361-376): it returns only instances that score
\* above the threshold, each with 17 keypoints (num_keypoints = 17).  The
\* RTMPose detector returns whatever it scores.
BackendReturns(est, inst) ==
    est.is_rtmpose
    \/ (inst.score > est.conf_threshold /\ Len(inst.keypoints) = 17)

\* the lists of instances one full-image inference may return: at most
\* MaxFull of them, no instance twice
Scenes(est) ==
    UNION {{sc \in [1..n -> {p \in FullInstances : BackendReturns(est, p)}] :
               \A i, j \in 1..n : i # j => sc[i] # sc[j]} : n \in 0..MaxFull}

\* the answers of the detector to one crop: it throws, or finds at most one
\* instance
RegionResponses(est) ==
    {[raised |-> TRUE, instances |-> << >>], [raised |-> FALSE, instances |-> << >>]}
    \cup {[raised |-> FALSE, instances |-> << p >>] :
             p \in {q \in BoxInstances : BackendReturns(est, q)}}

\* the answers of a top-down detector to n boxes in one call: it throws, it
\* returns nothing, or it returns one instance per box
TopDownResponses(est, n) ==
    {[raised |-> TRUE, instances |-> << >>], [raised |-> FALSE, instances |-> << >>]}
    \cup {[raised |-> FALSE, instances |-> r] : r \in [1..n -> BoxInstances]}

(* --------------------------- entry points ------------------------------ *)

\* line 1313: existing_person_boxes and len(existing_person_boxes) > 0 and
\* (use_detection_results is None or use_detection_results)
UseBoxes(c) ==
    Len(c.boxes) > 0
    /\ (c.use_detection_results = None \/ c.use_detection_results[1] = TRUE)

\* a start group id that forgets start_group_id when no id is given
EstimateGroupId_FromZero(c) ==
    IF Len(c.ids) > 0
    THEN IF c.ids[1] # None THEN c.ids[1][1] ELSE 0
    ELSE 0

\* lines 1324-1326: the start group id handed to get_shapes_from_poses
EstimateGroupId(c) ==
    IF Len(c.ids) > 0
    THEN IF c.ids[1] # None THEN c.ids[1][1] ELSE c.start_group_id
    ELSE c.start_group_id

\* the entry points without their except clause: the error propagates
EntryReturn_NoExcept(raised, result) ==
    [outcome |-> IF raised THEN "raised" ELSE "returned",
     shapes |-> IF raised THEN << >> ELSE result]

\* try: ... return shapes / except Exception: return [] of both entry
\* points (lines 1242-1263, 1298-1334)
EntryReturn(raised, result) ==
    [outcome |-> "returned", shapes |-> IF raised THEN << >> ELSE result]

\* detect_poses once the estimator e is constructed (lines 1253-1263):
\* estimator.detect_poses(image) answered by resp, get_shapes_from_poses,
\* the return
DetectPosesOf(e, resp, start_group_id, draw_skeleton) ==
    LET r == EstimatorDetectPoses(e, resp)
        g == GetShapesFromPoses(r.keypoints, r.scores, start_group_id,
                                draw_skeleton)
    IN  [found |-> r,
         caught |-> IF r.raised THEN "full"
                    ELSE IF g.raised THEN "project" ELSE "none",
         return |-> EntryReturn(r.raised \/ g.raised, g.shapes)]

VARIABLES
    pc,             \* where the call stands: start, boxes, detect, full, done
    call,           \* the entry point called and its arguments
    est,            \* Some(the PoseEstimator the call constructed), or None
    scene,          \* Some(what a full-image inference finds on the image)
                    \* once one has answered, None before
    last_full,      \* Some(the answer to the latest full-image inference)
    bi,             \* Python index of the next box of the KeypointRCNN loop
    keypoints_list, \* the loop's keypoints_list
    scores_list,    \* the loop's scores_list
    origin_list,    \* for each pose of keypoints_list, the index of its box
    box_log,        \* the branch each box of the call went through
    keypoints,      \* the entry point's keypoints
    scores,         \* the entry point's scores
    origin,         \* for each pose of keypoints, the index of its box, or
                    \* -1 for a pose of a full-image detection
    backend,        \* for each pose collected so far, the confidences the
                    \* backend gave its keypoints
    projected,      \* get_shapes_from_poses was called on keypoints, scores
    region_calls,   \* boxes handed to the backend so far
    full_calls,     \* full-image inferences run so far
    caught,         \* the stage whose error reached the entry point's except
    outcome,        \* none, returned or raised
    shapes,         \* the list returned
    loads,          \* models loaded so far (_load_model returned)
    calls           \* entry-point calls begun so far

vars == << pc, call, est, scene, last_full, bi, keypoints_list, scores_list,
           origin_list, box_log, keypoints, scores, origin, backend,
           projected, region_calls, full_calls, caught, outcome, shapes,
           loads, calls >>

\* every variable but pc and call at its value before a call
Fresh ==
    /\ est = None
    /\ scene = None
    /\ last_full = None
    /\ bi = 0
    /\ keypoints_list = << >>
    /\ scores_list = << >>
    /\ origin_list = << >>
    /\ box_log = << >>
    /\ keypoints = << >>
    /\ scores = << >>
    /\ origin = << >>
    /\ backend = << >>
    /\ projected = FALSE
    /\ region_calls = 0
    /\ full_calls = 0
    /\ caught = "none"
    /\ outcome = "none"
    /\ shapes = << >>
    /\ loads = 0
    /\ calls = 1

Init ==
    /\ pc = "start"
    /\ call \in DetectCalls \cup EstimateCalls
    /\ Fresh

\* the entry point returns: [] when an error of `stage` reached its except
\* clause (stage is "none" when nothing was raised), else `result`
Return(stage, result) ==
    /\ pc' = "done"
    /\ caught' = stage
    /\ outcome' = EntryReturn(stage # "none", result).outcome
    /\ shapes' = EntryReturn(stage # "none", result).shapes

\* PoseEstimator(...) at the head of both entry points (lines 1244-1251,
\* 1300-1307)
Construct ==
    /\ pc = "start"
    /\ \E cfg \in Configs, env \in Environments :
       \E a \in ConstructorArgs(call.draw_skeleton) :
          LET r == PoseEstimatorInit(a, cfg, env)
          IN  IF r.raised
              THEN /\ Return("construct", << >>)
                   /\ UNCHANGED << est, loads >>
              ELSE /\ est' = Some(r.est)
                   /\ loads' = loads + 1
                   /\ pc' = IF call.entry = "detect" THEN "detect"
                            ELSE IF UseBoxes(call) THEN "boxes" ELSE "full"
                   /\ UNCHANGED << caught, outcome, shapes >>
    /\ UNCHANGED << call, scene, last_full, bi, keypoints_list, scores_list,
                    origin_list, box_log, keypoints, scores, origin,
                    backend, projected, region_calls, full_calls, calls >>

\* what a full-image inference may answer now: the scene is fixed by the
\* image once it has been seen
ScenesNow == IF scene = None THEN Scenes(est[1]) ELSE {scene[1]}

FullResponsesNow ==
    {[raised |-> TRUE, instances |-> << >>]}
    \cup {[raised |-> FALSE, instances |-> sc] : sc \in ScenesNow}

\* stands for the answer of an inference that is not run
NoInference == [raised |-> FALSE, instances |-> << >>]

\* the scene after a full-image inference answered resp
Seen(resp) == IF resp.raised THEN scene ELSE Some(resp.instances)

\* the confidences of the rows of a pose
Confidences(kpts) == [j \in 1..Len(kpts) |-> kpts[j][3]]

\* the instances of a full-image answer behind the poses that
\* PoseEstimator.detect_poses returns for it, in order: the instances that
\* pass the filter, cut where the max_poses break cut them
FullSources(e, resp) ==
    LET alone(p) == EstimatorDetectPoses(e, [raised |-> FALSE, instances |-> << p >>])
        passing == SelectSeq(resp.instances, LAMBDA p : Len(alone(p).keypoints) = 1)
        r == EstimatorDetectPoses(e, resp)
    IN  [i \in 1..Len(r.keypoints) |-> Confidences(passing[i].keypoints)]

\* the full-image instance the match of lines 898-921 picks for clamped box c
FallbackSource(c, insts) ==
    insts[BestIouLoop(c, insts, 1, [num |-> 0, den |-> 1, idx |-> -1]).idx + 1]

\* One iteration of the loop of _detect_keypointrcnn_from_boxes, and the
\* method's return after the last box or at an error (lines 813-943)
KeypointrcnnBox ==
    /\ pc = "boxes"
    /\ ~est[1].is_rtmpose /\ est[1].is_keypointrcnn
    /\ \E region \in RegionResponses(est[1]) :
       \E full \in (IF /\ ~region.raised /\ Len(region.instances) = 0
                       /\ FallbackEntered(keypoints_list)
                    THEN FullResponsesNow ELSE {NoInference}) :
          LET r == KeypointrcnnBoxIteration(
                       est[1], Image, call.boxes[bi + 1], region, full,
                       keypoints_list, scores_list)
              got == Len(r.keypoints_list) > Len(keypoints_list)
              origins == IF got THEN Append(origin_list, bi) ELSE origin_list
              source == IF r.event = "region_pose" THEN region.instances[1]
                        ELSE FallbackSource(
                                 ClampBox(call.boxes[bi + 1], Image.width,
                                          Image.height), full.instances)
              last == bi + 1 = Len(call.boxes)
          IN  /\ box_log' = Append(box_log, r.event)
              /\ region_calls' = region_calls + (IF r.event \in RegionEvents THEN 1 ELSE 0)
              /\ full_calls' = full_calls + (IF r.event \in FullEvents THEN 1 ELSE 0)
              /\ scene' = IF r.event \in FullEvents THEN Seen(full) ELSE scene
              /\ last_full' = IF r.event \in FullEvents THEN Some(full) ELSE last_full
              /\ IF r.raised
                 THEN \* except Exception: return [], []
                      /\ keypoints' = << >>
                      /\ scores' = << >>
                      /\ origin' = << >>
                      /\ backend' = << >>
                      /\ pc' = "full"
                      /\ UNCHANGED << bi, keypoints_list, scores_list, origin_list >>
                 ELSE /\ backend' = IF got
                                      THEN Append(backend, Confidences(source.keypoints))
                                      ELSE backend
                      /\ keypoints_list' = r.keypoints_list
                      /\ scores_list' = r.scores_list
                      /\ origin_list' = origins
                      /\ bi' = bi + 1
                      /\ IF last
                         THEN /\ keypoints' = r.keypoints_list
                              /\ scores' = r.scores_list
                              /\ origin' = origins
                              /\ pc' = "full"
                         ELSE UNCHANGED << keypoints, scores, origin, pc >>
    /\ UNCHANGED << call, est, projected, caught, outcome, shapes, loads,
                    calls >>

\* detect_poses_from_boxes of the variants that hand all the boxes to the
\* backend in one call; an error leaves estimate_poses through its except
FromBoxesSingle ==
    /\ pc = "boxes"
    /\ est[1].is_rtmpose \/ ~est[1].is_keypointrcnn
    /\ \E resp \in TopDownResponses(est[1], Len(call.boxes)) :
          LET r == DetectPosesFromBoxesSingle(est[1], call.boxes, resp)
          IN  /\ box_log' = [i \in 1..Len(call.boxes) |->
                                IF resp.raised THEN "region_raised"
                                ELSE IF Len(resp.instances) = 0 THEN "top_down_none"
                                ELSE "top_down_pose"]
              /\ region_calls' = Len(call.boxes)
              /\ IF r.raised
                 THEN /\ Return("boxes", << >>)
                      /\ UNCHANGED << keypoints, scores, origin, backend >>
                 ELSE /\ backend' = [i \in 1..Len(resp.instances) |->
                                        Confidences(resp.instances[i].keypoints)]
                      /\ keypoints' = r.keypoints
                      /\ scores' = r.scores
                      /\ origin' = [i \in 1..Len(r.keypoints) |-> i - 1]
                      /\ pc' = "full"
                      /\ UNCHANGED << caught, outcome, shapes >>
    /\ UNCHANGED << call, est, scene, last_full, bi, keypoints_list,
                    scores_list, origin_list, projected, full_calls, loads,
                    calls >>

\* detect_poses after the constructor (lines 1253-1263)
DetectPosesFinish ==
    /\ pc = "detect"
    /\ \E full \in FullResponsesNow :
          LET d == DetectPosesOf(est[1], full, call.start_group_id,
                                 call.draw_skeleton)
          IN  /\ keypoints' = d.found.keypoints
              /\ scores' = d.found.scores
              /\ origin' = [i \in 1..Len(d.found.keypoints) |-> -1]
              /\ backend' = FullSources(est[1], full)
              /\ projected' = ~d.found.raised
              /\ Return(d.caught, d.return.shapes)
              /\ scene' = Seen(full)
              /\ last_full' = Some(full)
              /\ full_calls' = full_calls + 1
    /\ UNCHANGED << call, est, bi, keypoints_list, scores_list, origin_list,
                    box_log, region_calls, loads, calls >>

\* estimate_poses after the boxes (lines 1318-1334): the full-image
\* detection when no pose was found, the choice of the group id,
\* get_shapes_from_poses, the return
EstimatePosesFinish ==
    /\ pc = "full"
    /\ \E full \in (IF Len(keypoints) = 0 THEN FullResponsesNow ELSE {NoInference}) :
          LET detect == Len(keypoints) = 0
              r == IF detect THEN EstimatorDetectPoses(est[1], full)
                   ELSE [raised |-> FALSE, keypoints |-> keypoints,
                         scores |-> scores]
              g == GetShapesFromPoses(r.keypoints, r.scores,
                                      EstimateGroupId(call), call.draw_skeleton)
          IN  /\ keypoints' = r.keypoints
              /\ scores' = r.scores
              /\ origin' = IF detect THEN [i \in 1..Len(r.keypoints) |-> -1]
                           ELSE origin
              /\ backend' = IF detect THEN FullSources(est[1], full) ELSE backend
              /\ projected' = ~r.raised
              /\ Return(IF r.raised THEN "full"
                        ELSE IF g.raised THEN "project" ELSE "none", g.shapes)
              /\ scene' = IF detect THEN Seen(full) ELSE scene
              /\ last_full' = IF detect THEN Some(full) ELSE last_full
              /\ full_calls' = full_calls + (IF detect THEN 1 ELSE 0)
    /\ UNCHANGED << call, est, bi, keypoints_list, scores_list, origin_list,
                    box_log, region_calls, loads, calls >>

Next ==
    \/ Construct
    \/ KeypointrcnnBox
    \/ FromBoxesSingle
    \/ DetectPosesFinish
    \/ EstimatePosesFinish

Spec == Init /\ [][Next]_vars

(* ------------------------------ claims --------------------------------- *)

\* the entry point has returned a projection: nothing was caught
Returned == pc = "done" /\ caught = "none" /\ projected

\* the number of shapes a pose must yield: one per keypoint above zero and,
\* when lines are drawn, one per skeleton edge with both ends above zero
PoseShapeCount(kpts, draw_skeleton) ==
    Cardinality({j \in 1..Len(kpts) : kpts[j][3] > 0})
    + (IF Truthy(draw_skeleton)
       THEN Cardinality({e \in 1..Len(COCO_SKELETON) :
                            /\ kpts[COCO_SKELETON[e][1] + 1][3] > 0
                            /\ kpts[COCO_SKELETON[e][2] + 1][3] > 0})
       ELSE 0)

\* the number of shapes of the poses before pose i (a TLA+ index)
RECURSIVE ShapesBefore(_)
ShapesBefore(i) ==
    IF i <= 1 THEN 0
    ELSE ShapesBefore(i - 1) + PoseShapeCount(keypoints[i - 1], call.draw_skeleton)

\* the returned shapes that belong to pose i: the poses' shapes follow one
\* another in the order of the poses
ShapesOfPose(i) ==
    {shapes[n] : n \in (ShapesBefore(i) + 1)..ShapesBefore(i + 1)}

\* the box-guided stage ran on the call's boxes
BoxGuided == call.entry = "estimate" /\ UseBoxes(call)

\* every box of the call carries an id
AllIdsGiven ==
    /\ Len(call.ids) = Len(call.boxes)
    /\ \A k \in 1..Len(call.ids) : call.ids[k] # None

\* C1: in a box-guided call whose boxes all carry ids, every shape of the
\* pose that comes from box b_i carries group_id = g_i.
C1_ShapesCarryIdOfTheirBox ==
    (Returned /\ BoxGuided /\ AllIdsGiven)
    => \A i \in 1..Len(keypoints) :
          origin[i] >= 0
          => \A s \in ShapesOfPose(i) : s.group_id = call.ids[origin[i] + 1][1]

\* C2: whatever fails (runtime missing, model load, full-image or region
\* inference, projection), detect_poses and estimate_poses never raise; once
\* they are done they have returned a list, the empty one when an error was
\* caught.
C2_EntryPointsNeverRaise ==
    /\ outcome # "raised"
    /\ pc = "done" => /\ outcome = "returned"
                      /\ DOMAIN shapes = 1..Len(shapes)
                      /\ caught # "none" => shapes = << >>

\* C2 witness: each kind of failure has reached the except clause of an
\* entry point, which returned the empty list
C2_Witness ==
    /\ pc = "done"
    /\ caught = "boxes"
    /\ call.entry = "estimate"
    /\ outcome = "returned"
    /\ shapes = << >>

\* the minimum number of visible keypoints in effect
MinKeypoints(e) == Get(e.advanced_params.min_keypoints, DEFAULT_MIN_KEYPOINTS)

\* C3: every pose handed to get_shapes_from_poses has instance score >=
\* conf_threshold and at least min_keypoints keypoints with confidence >=
\* keypoint_threshold, from either entry point and every backend variant.
C3_ProjectedPosesPassedFilter ==
    (pc = "done" /\ projected)
    => \A i \in 1..Len(keypoints) :
          /\ scores[i] >= est[1].conf_threshold
          /\ VisibleKeypoints(keypoints[i], est[1].keypoint_threshold)
                >= MinKeypoints(est[1])

\* the positions of the returned shapes of one type
ShapesOfType(t) == {n \in DOMAIN shapes : shapes[n].shape_type = t}

\* the case of C4: one known box with an id, lines drawn, and the box's
\* region detection gave the one pose, with score >= conf_threshold and 17
\* keypoints of confidence >= keypoint_threshold
C4_Case ==
    /\ Returned /\ BoxGuided /\ AllIdsGiven
    /\ Len(call.boxes) = 1
    /\ call.draw_skeleton = Some(TRUE)
    /\ box_log \in {<< "region_pose" >>, << "top_down_pose" >>}
    /\ Len(keypoints) = 1 /\ origin = << 0 >>
    /\ scores[1] >= est[1].conf_threshold
    /\ Len(keypoints[1]) = 17
    /\ \A j \in 1..17 : keypoints[1][j][3] >= est[1].keypoint_threshold

\* the result of C4: 17 points and 18 lines, all with the id of the box
C4_Result ==
    /\ Len(shapes) = 35
    /\ Cardinality(ShapesOfType("point")) = 17
    /\ Cardinality(ShapesOfType("line")) = 18
    /\ \A n \in DOMAIN shapes : shapes[n].group_id = call.ids[1][1]

\* C4 as stated: in its case the result is exactly 17 point shapes and 18
\* line shapes, all 35 with group_id = g.
C4_AsStated == C4_Case => C4_Result

\* C4, amended: when in addition every keypoint's confidence is above zero
\* (a keypoint at confidence 0 passes a keypoint_threshold of 0 and is still
\* not drawn), the result is exactly 17 point shapes and 18 line shapes, all
\* 35 with group_id = g.
C4_SeventeenPointsEighteenLines ==
    (C4_Case /\ \A j \in 1..17 : keypoints[1][j][3] > 0) => C4_Result

\* C4 witness: box [100,50,300,400] with id 7, score 0.95, confidences 0.9
C4_Witness ==
    /\ C4_Case /\ C4_Result
    /\ call.boxes = << BoxA >> /\ call.ids = << Some(7) >>
    /\ scores = << Pct(95) >>
    /\ \A j \in 1..17 : keypoints[1][j][3] = Pct(90)

\* C5: with no known boxes and no ids, estimate_poses returns the list that
\* detect_poses returns for the same image (the same answer of the full-image
\* inference), configuration, start_group_id and draw_skeleton, and no
\* region inference is run.
C5_NoBoxesIsDetectPoses ==
    (pc = "done" /\ call.entry = "estimate"
        /\ call.boxes = << >> /\ call.ids = << >>)
    => /\ region_calls = 0
       /\ box_log = << >>
       /\ IF est = None THEN shapes = << >>
          ELSE /\ last_full # None
               /\ shapes = DetectPosesOf(est[1], last_full[1],
                                         call.start_group_id,
                                         call.draw_skeleton).return.shapes

\* C5 witness: such a call returned the shapes of a full-image detection
C5_Witness ==
    /\ pc = "done" /\ call.entry = "estimate"
    /\ call.boxes = << >> /\ call.ids = << >>
    /\ caught = "none"
    /\ full_calls = 1
    /\ Len(keypoints) = 2
    /\ Len(shapes) > 0

\* C6: when boxes are supplied and no box produces a pose, the poses of the
\* full-image detection that follows get the group ids start_group_id + i.
C6_FallbackIdsAutoAssigned ==
    (Returned /\ BoxGuided /\ \A i \in 1..Len(origin) : origin[i] = -1)
    => \A i \in 1..Len(keypoints) :
          \A s \in ShapesOfPose(i) : s.group_id = call.start_group_id + (i - 1)

\* C7: every known box whose region inference yields zero instances goes
\* through the full-image IoU match, wherever it stands in the list and
\* whatever the earlier boxes produced.
C7_FallbackForEveryEmptyRegion ==
    \A k \in DOMAIN box_log : box_log[k] # "no_fallback"

\* the region inference of box k (a TLA+ index) yielded zero instances
RegionEmpty(k) == box_log[k] \in {"fallback_pose", "fallback_none", "no_fallback"}

\* boxes k1 and k2 both overlap one instance of the scene with IoU > 0.3
OverlapSameInstance(k1, k2) ==
    /\ scene # None
    /\ \E n \in DOMAIN scene[1] :
          /\ IouAccepted(Iou(ClampBox(call.boxes[k1], Image.width, Image.height),
                             scene[1][n].box))
          /\ IouAccepted(Iou(ClampBox(call.boxes[k2], Image.width, Image.height),
                             scene[1][n].box))

\* C8: two known boxes, both with zero region instances and both overlapping
\* the same full-image instance with IoU > 0.3, give two poses, one per box.
C8_BothBoxesGetAPose ==
    (pc = "full" /\ BoxGuided /\ Len(call.boxes) = 2 /\ Len(box_log) = 2
        /\ RegionEmpty(1) /\ RegionEmpty(2) /\ OverlapSameInstance(1, 2))
    => origin = << 0, 1 >>

\* C9: a known box less than 10 px wide or high once clamped is skipped by
\* every variant: no region inference on it and no pose from it.
C9_SmallBoxSkipped ==
    \A k \in DOMAIN box_log :
       BoxTooSmall(ClampBox(call.boxes[k], Image.width, Image.height))
       => /\ box_log[k] = "skipped"
          /\ \A i \in DOMAIN origin : origin[i] # k - 1

(* ------------------- get_shapes_from_poses on its own ------------------- *)

\* the most poses handed to get_shapes_from_poses
MaxPoses == 2

\* nine keypoints at 0.9, the others at a negative confidence
KptsNegative == Rows(17, 9, Pct(90), 0 - Pct(10))

PoseProfiles == {KptsAll, KptsFew, KptsNegative, KptsShort}

PoseLists == UNION {[1..n -> PoseProfiles] : n \in 0..MaxPoses}

\* direct calls get_shapes_from_poses(keypoints, scores, start_group_id,
\* draw_skeleton)
ProjectCalls ==
    {[entry |-> "get_shapes_from_poses", boxes |-> << >>, ids |-> << >>,
      use_detection_results |-> None, start_group_id |-> s,
      draw_skeleton |-> d] :
        s \in {0, 5}, d \in {None, Some(TRUE), Some(FALSE)}}

InitProjection ==
    /\ pc = "project"
    /\ call \in ProjectCalls
    /\ keypoints \in PoseLists
    /\ scores = [i \in 1..Len(keypoints) |-> Pct(95)]
    /\ origin = [i \in 1..Len(keypoints) |-> -1]
    /\ backend = [i \in 1..Len(keypoints) |-> Confidences(keypoints[i])]
    /\ est = None /\ scene = None /\ last_full = None /\ bi = 0
    /\ keypoints_list = << >> /\ scores_list = << >> /\ origin_list = << >>
    /\ box_log = << >> /\ projected = FALSE
    /\ region_calls = 0 /\ full_calls = 0
    /\ caught = "none" /\ outcome = "none" /\ shapes = << >>
    /\ loads = 0 /\ calls = 1

\* the call of get_shapes_from_poses: it returns the shapes, or the
\* IndexError leaves it
Project ==
    /\ pc = "project"
    /\ LET g == GetShapesFromPoses(keypoints, scores, call.start_group_id,
                                   call.draw_skeleton)
       IN  /\ shapes' = g.shapes
           /\ outcome' = IF g.raised THEN "raised" ELSE "returned"
    /\ projected' = TRUE
    /\ pc' = "done"
    /\ UNCHANGED << call, est, scene, last_full, bi, keypoints_list,
                    scores_list, origin_list, box_log, keypoints, scores,
                    origin, backend, region_calls, full_calls, caught, loads,
                    calls >>

NextProjection == Project

SpecProjection == InitProjection /\ [][NextProjection]_vars

\* the positions of the point shapes of pose i (a TLA+ index) for keypoint j:
\* those labelled with joint name j and carrying the pose's group id
PointsFor(i, j) ==
    {n \in ShapesOfType("point") :
        /\ shapes[n].label = COCO_KEYPOINTS[j]
        /\ shapes[n].group_id = call.start_group_id + (i - 1)}

\* C10: get_shapes_from_poses emits for each pose exactly one "point" shape
\* per keypoint with confidence > 0, with the one point (x, y), the joint
\* name of the keypoint's position and the pose's group id, and no point
\* shape for a keypoint with confidence <= 0.
C10_OnePointPerVisibleKeypoint ==
    (pc = "done" /\ outcome = "returned")
    => /\ \A i \in 1..Len(keypoints) : \A j \in 1..Len(keypoints[i]) :
             IF keypoints[i][j][3] > 0
             THEN /\ Cardinality(PointsFor(i, j)) = 1
                  /\ \A n \in PointsFor(i, j) :
                        shapes[n].points
                           = << << keypoints[i][j][1], keypoints[i][j][2] >> >>
             ELSE PointsFor(i, j) = {}
       /\ \A n \in ShapesOfType("point") :
             \E i \in 1..Len(keypoints) : \E j \in 1..Len(keypoints[i]) :
                n \in PointsFor(i, j)

\* C10 witness: two poses, one with keypoints at zero and one with keypoints
\* below zero, gave 3 and 9 point shapes, the second pose's with group id 6
C10_Witness ==
    /\ pc = "done" /\ outcome = "returned"
    /\ keypoints = << KptsFew, KptsNegative >>
    /\ call.start_group_id = 5
    /\ Cardinality(ShapesOfType("point")) = 12
    /\ Cardinality({n \in ShapesOfType("point") : shapes[n].group_id = 6}) = 9

\* the label of skeleton edge e (a TLA+ index): limb_<a>_<b>
LimbLabel(e) ==
    "limb_" \o COCO_KEYPOINTS[COCO_SKELETON[e][1] + 1]
            \o "_" \o COCO_KEYPOINTS[COCO_SKELETON[e][2] + 1]

\* the positions of the line shapes of pose i (a TLA+ index) for edge e
LinesFor(i, e) ==
    {n \in ShapesOfType("line") :
        /\ shapes[n].label = LimbLabel(e)
        /\ shapes[n].group_id = call.start_group_id + (i - 1)}

\* C11: with draw_skeleton true, get_shapes_from_poses emits for each pose
\* exactly one 2-point "line" shape limb_<a>_<b> per skeleton edge whose two
\* endpoints have confidence > 0, with the group id of the pose's points, and
\* none for an edge with an endpoint of confidence <= 0; with draw_skeleton
\* false it emits no line shape at all.
C11_OneLinePerVisibleEdge ==
    (pc = "done" /\ outcome = "returned")
    => IF call.draw_skeleton = Some(TRUE)
       THEN /\ \A i \in 1..Len(keypoints) : \A e \in 1..Len(COCO_SKELETON) :
                  LET p1 == keypoints[i][COCO_SKELETON[e][1] + 1]
                      p2 == keypoints[i][COCO_SKELETON[e][2] + 1]
                  IN  IF p1[3] > 0 /\ p2[3] > 0
                      THEN /\ Cardinality(LinesFor(i, e)) = 1
                           /\ \A n \in LinesFor(i, e) :
                                 shapes[n].points = << << p1[1], p1[2] >>,
                                                       << p2[1], p2[2] >> >>
                      ELSE LinesFor(i, e) = {}
            /\ \A n \in ShapesOfType("line") :
                  \E i \in 1..Len(keypoints) : \E e \in 1..Len(COCO_SKELETON) :
                     n \in LinesFor(i, e)
       ELSE ShapesOfType("line") = {}

\* C11 witness: two poses with hidden keypoints gave the lines of their
\* visible edges only, 2 and 9, the second pose's with group id 6
C11_Witness ==
    /\ pc = "done" /\ outcome = "returned"
    /\ call.draw_skeleton = Some(TRUE)
    /\ keypoints = << KptsFew, KptsNegative >>
    /\ call.start_group_id = 5
    /\ Cardinality(ShapesOfType("line")) = 11
    /\ Cardinality({n \in ShapesOfType("line") : shapes[n].group_id = 6}) = 9

\* pose i (a TLA+ index) has a point shape for keypoint j among its shapes
HasPoint(i, j) ==
    \E s \in ShapesOfPose(i) :
       s.shape_type = "point" /\ s.label = COCO_KEYPOINTS[j]

\* C12: from either entry point, a keypoint to which the backend gave a
\* confidence above zero, be it below keypoint_threshold, has a point shape
\* in the returned list when its pose is returned; only the keypoints at
\* confidence exactly 0 have none.
C12_LowConfidenceKeypointDrawn ==
    Returned
    => \A i \in 1..Len(keypoints) : \A j \in 1..Len(backend[i]) :
          /\ backend[i][j] > 0 => HasPoint(i, j)
          /\ backend[i][j] = 0 => ~HasPoint(i, j)

(* ----------------------- PoseEstimator on its own ----------------------- *)

\* the arguments a caller may give the constructor: each left out, or given,
\* also as 0, as a number outside [0, 1], as an empty dictionary, as False
OverrideArgs ==
    [model_name : {None} \cup {Some(n) : n \in ModelNames},
     device : {None, Some("cuda")},
     conf_threshold : {None, Some(0), Some(Pct(30)), Some(Pct(150))},
     keypoint_threshold : {None, Some(0), Some(0 - Pct(10))},
     advanced_params : {None, Some(EmptyDict),
                        Some([max_poses |-> Some(3), min_keypoints |-> None])},
     draw_skeleton : {None, Some(FALSE), Some(TRUE)}]

\* a stored configuration that differs from the built-in defaults in every
\* field
StoredConfig ==
    [model_name |-> Some("rtmpose_m"), conf_threshold |-> Some(Pct(70)),
     device |-> Some("cuda"), keypoint_threshold |-> Some(Pct(40)),
     advanced |-> Some([max_poses |-> Some(1), min_keypoints |-> Some(0)]),
     draw_skeleton |-> Some(FALSE)]

\* a stored configuration with thresholds outside [0, 1]
WildConfig ==
    [NoConfig EXCEPT !.conf_threshold = Some(0 - Pct(20)),
                     !.keypoint_threshold = Some(Pct(120))]

StoredConfigs == {NoConfig, StoredConfig, WildConfig}

\* the machines of Environments, with and without CUDA
Machines ==
    Environments \cup {[env EXCEPT !.cuda_available = TRUE] : env \in Environments}

\* the calls PoseEstimator(model_name, device, conf_threshold,
\* keypoint_threshold, advanced_params, draw_skeleton)
ConstructionCalls ==
    {[entry |-> "PoseEstimator", args |-> a, config |-> cfg, env |-> env] :
        a \in OverrideArgs, cfg \in StoredConfigs, env \in Machines}

InitConstruction ==
    /\ pc = "construct"
    /\ call \in ConstructionCalls
    /\ Fresh

\* PoseEstimator.__init__ runs: the object is there, or the error leaves
\* the constructor
ConstructEstimator ==
    /\ pc = "construct"
    /\ LET r == PoseEstimatorInit(call.args, call.config, call.env)
       IN  /\ est' = IF r.raised THEN None ELSE Some(r.est)
           /\ loads' = IF r.raised THEN loads ELSE loads + 1
           /\ outcome' = IF r.raised THEN "raised" ELSE "returned"
    /\ pc' = "done"
    /\ UNCHANGED << call, scene, last_full, bi, keypoints_list, scores_list,
                    origin_list, box_log, keypoints, scores, origin, backend,
                    projected, region_calls, full_calls, caught, shapes,
                    calls >>

NextConstruction == ConstructEstimator

SpecConstruction == InitConstruction /\ [][NextConstruction]_vars

\* a construction has run
Constructed == pc = "done" /\ call.entry = "PoseEstimator"

\* the backend name the call asks for: the argument, else the stored one,
\* else the default
RequestedName ==
    IF call.args.model_name # None THEN call.args.model_name[1]
    ELSE Get(call.config.model_name, DEFAULT_MODEL_NAME)

\* the default variant can be built on the machine
DefaultAvailable == call.env.has_torch /\ call.env.keypointrcnn_ok

\* C13: whatever backend name is asked for (yolov7, rtmpose_*, an unknown
\* name), the construction raises only when the default variant
\* keypointrcnn_resnet50_fpn is itself unavailable; an unavailable RTMPose
\* backend is replaced by the default variant.
C13_ConstructionFallsBackToDefault ==
    (Constructed /\ DefaultAvailable)
    => /\ outcome = "returned"
       /\ est # None
       /\ (StartsWithRtmpose(RequestedName) /\ ~call.env.mmpose_ok)
             => est[1].model_name = DEFAULT_MODEL_NAME

(* ------------------------ calls one after another ---------------------- *)

\* the most entry-point calls a program makes
MaxCalls == 2

\* the program calls an entry point again after the last call returned: the
\* locals of the new call start afresh, nothing of the last call is kept
NextCall ==
    /\ pc = "done"
    /\ calls < MaxCalls
    /\ calls' = calls + 1
    /\ pc' = "start"
    /\ call' \in DetectCalls \cup EstimateCalls
    /\ est' = None /\ scene' = None /\ last_full' = None /\ bi' = 0
    /\ keypoints_list' = << >> /\ scores_list' = << >> /\ origin_list' = << >>
    /\ box_log' = << >> /\ keypoints' = << >> /\ scores' = << >>
    /\ origin' = << >> /\ backend' = << >> /\ projected' = FALSE
    /\ region_calls' = 0 /\ full_calls' = 0
    /\ caught' = "none" /\ outcome' = "none" /\ shapes' = << >>
    /\ UNCHANGED loads

NextCalls ==
    \/ Construct
    \/ KeypointrcnnBox
    \/ FromBoxesSingle
    \/ DetectPosesFinish
    \/ EstimatePosesFinish
    \/ NextCall

SpecCalls == Init /\ [][NextCalls]_vars

\* C14: over any sequence of calls to the two entry points the model is
\* loaded exactly once: never a second time, and once a detection has run.
C14_ModelLoadedOnce ==
    /\ loads <= 1
    /\ (pc \in {"boxes", "detect", "full"} \/ region_calls + full_calls > 0)
          => loads = 1

\* the backend names the loaders know
KnownNames ==
    {"rtmpose_tiny", "rtmpose_s", "rtmpose_m", "rtmpose_l", DEFAULT_MODEL_NAME}

\* C15: for every field an explicitly supplied constructor argument is the
\* value in effect, also when it is 0, False or an empty dictionary (a
\* model name no loader knows and a device the machine lacks aside).
C15_OverridesInEffect ==
    (Constructed /\ est # None)
    => LET a == call.args
           e == est[1]
       IN  /\ a.conf_threshold # None => e.conf_threshold = a.conf_threshold[1]
           /\ a.keypoint_threshold # None
                 => e.keypoint_threshold = a.keypoint_threshold[1]
           /\ a.advanced_params # None
                 => e.advanced_params = a.advanced_params[1]
           /\ a.draw_skeleton # None => e.draw_skeleton = a.draw_skeleton[1]
           /\ (a.model_name # None /\ a.model_name[1] \in KnownNames)
                 => e.model_name = a.model_name[1]
           /\ (a.device # None /\ call.env.cuda_available)
                 => e.device = a.device[1]

\* both ends of skeleton edge e (a TLA+ index) of the rows kpts are there
\* with a confidence above zero
EdgeVisible(kpts, e) ==
    /\ COCO_SKELETON[e][1] + 1 <= Len(kpts)
    /\ COCO_SKELETON[e][2] + 1 <= Len(kpts)
    /\ kpts[COCO_SKELETON[e][1] + 1][3] > 0
    /\ kpts[COCO_SKELETON[e][2] + 1][3] > 0

\* C16: when the caller of an entry point gives no draw_skeleton, the
\* configured value decides: with the default configuration (true) every
\* skeleton edge of a returned pose with both endpoints visible has its line
\* shape in the result.
C16_ConfiguredDrawSkeletonDecides ==
    (Returned /\ call.draw_skeleton = None /\ est[1].draw_skeleton = TRUE)
    => \A i \in 1..Len(keypoints) : \A e \in 1..Len(COCO_SKELETON) :
          EdgeVisible(keypoints[i], e)
          => \E n \in ShapesOfType("line") : shapes[n].label = LimbLabel(e)

\* C17: an invalid threshold of the configuration or of the overrides is
\* clamped at construction: afterwards conf_threshold and keypoint_threshold
\* lie in [0, 1].
C17_ThresholdsClamped ==
    (Constructed /\ est # None)
    => /\ 0 <= est[1].conf_threshold /\ est[1].conf_threshold <= Pct(100)
       /\ 0 <= est[1].keypoint_threshold /\ est[1].keypoint_threshold <= Pct(100)

(* ------------------ PoseEstimator.detect_poses on its own --------------- *)

\* a pose with no keypoint above zero
KptsNone == Rows(17, 0, Pct(90), 0)

\* what a detector may find on the whole image, a person with no visible
\* keypoint included
FilterInstances ==
    FullInstances \cup {Instance(<< 10, 10, 90, 200 >>, Pct(95), KptsNone)}

\* the stored configurations the filter runs under: those of the entry
\* points, and one whose advanced dictionary sets max_poses to 0
FilterConfigs ==
    Configs
    \cup {[NoConfig EXCEPT !.advanced = Some([max_poses |-> Some(0),
                                              min_keypoints |-> None])]}

\* the estimators the constructor builds on a machine that has everything
FilterEstimators ==
    {r.est : r \in {q \in {PoseEstimatorInit(a, cfg, AllThere) :
                              a \in ConstructorArgs(None), cfg \in FilterConfigs} :
                       ~q.raised}}

\* the answers of a full-image inference to the filter: it throws, or it
\* returns at most MaxFull instances, none twice
FilterResponses(e) ==
    {[raised |-> TRUE, instances |-> << >>]}
    \cup UNION {{[raised |-> FALSE, instances |-> sc] :
                    sc \in {l \in [1..n -> {p \in FilterInstances : BackendReturns(e, p)}] :
                               \A i, j \in 1..n : i # j => l[i] # l[j]}} :
                n \in 0..MaxFull}

InitFilter ==
    /\ pc = "filter"
    /\ call = [entry |-> "PoseEstimator.detect_poses"]
    /\ est \in {Some(e) : e \in FilterEstimators}
    /\ last_full \in {Some(resp) : resp \in FilterResponses(est[1])}
    /\ scene = None /\ bi = 0
    /\ keypoints_list = << >> /\ scores_list = << >> /\ origin_list = << >>
    /\ box_log = << >> /\ keypoints = << >> /\ scores = << >>
    /\ origin = << >> /\ backend = << >> /\ projected = FALSE
    /\ region_calls = 0 /\ full_calls = 0
    /\ caught = "none" /\ outcome = "none" /\ shapes = << >>
    /\ loads = 1 /\ calls = 0

\* estimator.detect_poses(image) returns the poses the filter keeps, or the
\* backend's error leaves it
FilterPoses ==
    /\ pc = "filter"
    /\ LET r == EstimatorDetectPoses(est[1], last_full[1])
       IN  /\ keypoints' = r.keypoints
           /\ scores' = r.scores
           /\ outcome' = IF r.raised THEN "raised" ELSE "returned"
    /\ origin' = [i \in 1..Len(keypoints') |-> -1]
    /\ backend' = FullSources(est[1], last_full[1])
    /\ full_calls' = full_calls + 1
    /\ pc' = "done"
    /\ UNCHANGED << call, est, scene, last_full, bi, keypoints_list,
                    scores_list, origin_list, box_log, projected,
                    region_calls, caught, shapes, loads, calls >>

NextFilter == FilterPoses

SpecFilter == InitFilter /\ [][NextFilter]_vars

\* C18: the filter never returns a pose with zero keypoints at confidence
\* >= keypoint_threshold, whatever the configuration, min_keypoints = 0
\* included.
C18_NoPoseWithoutVisibleKeypoint ==
    (pc = "done" /\ outcome = "returned")
    => \A i \in 1..Len(keypoints) :
          VisibleKeypoints(keypoints[i], est[1].keypoint_threshold) >= 1


\* ---------------------------------------------------------------------------
\* Group ids of a call whose boxes carry ids only in part
\* ---------------------------------------------------------------------------

\* some boxes of the call carry an id and others do not
SomeIdsGiven ==
    /\ Len(call.ids) = Len(call.boxes)
    /\ \E k \in 1..Len(call.ids) : call.ids[k] # None
    /\ \E k \in 1..Len(call.ids) : call.ids[k] = None

\* the group ids carried by the shapes of pose i
GroupIdsOfPose(i) == {s.group_id : s \in ShapesOfPose(i)}

\* C19: in a box-guided call where some boxes carry ids and others do not,
\* two poses never share a group id, and the pose of a box without id never
\* gets the id of another supplied box.
C19_CounterIdsAvoidBoxIds ==
    (Returned /\ BoxGuided /\ SomeIdsGiven)
    => /\ \A i, j \in 1..Len(keypoints) :
             i # j => GroupIdsOfPose(i) \cap GroupIdsOfPose(j) = {}
       /\ \A i \in 1..Len(keypoints) :
             (origin[i] >= 0 /\ call.ids[origin[i] + 1] = None)
             => \A k \in 1..Len(call.ids) :
                   (k # origin[i] + 1 /\ call.ids[k] # None)
                   => call.ids[k][1] \notin GroupIdsOfPose(i)


\* ---------------------------------------------------------------------------
\* Sequences of detection calls on one estimator
\* ---------------------------------------------------------------------------

\* the attributes of self after a statement of PoseEstimator.detect_poses,
\* detect_poses_from_boxes or one of the methods they dispatch to (lines
\* 391-943): these methods read self.model, self.device, the thresholds and
\* advanced_params, and assign no attribute of self
SelfAfterDetection_NameSwitched(e) ==
    [e EXCEPT !.model_name = "keypointrcnn_resnet50_fpn",
              !.is_keypointrcnn = TRUE]

SelfAfterDetection(e) == e

\* the lists of boxes a caller hands to detect_poses_from_boxes
MethodBoxLists == BoxLists \ {<< >>}

\* an estimator has been constructed, its model loaded once, and no
\* detection method has been called on it yet
InitMethods ==
    /\ pc = "ready"
    /\ call = [entry |-> "PoseEstimator", boxes |-> << >>, done |-> {}]
    /\ est \in {Some(e) : e \in FilterEstimators}
    /\ scene = None /\ last_full = None /\ bi = 0
    /\ keypoints_list = << >> /\ scores_list = << >> /\ origin_list = << >>
    /\ box_log = << >> /\ keypoints = << >> /\ scores = << >>
    /\ origin = << >> /\ backend = << >> /\ projected = FALSE
    /\ region_calls = 0 /\ full_calls = 0
    /\ caught = "none" /\ outcome = "none" /\ shapes = << >>
    /\ loads = 1 /\ calls = 0

\* estimator.detect_poses(image), lines 391-413 and the method it
\* dispatches to
CallDetectPoses ==
    /\ pc = "ready" /\ calls < MaxCalls
    /\ \E full \in FullResponsesNow :
          LET r == EstimatorDetectPoses(est[1], full)
          IN  /\ keypoints' = r.keypoints
              /\ scores' = r.scores
              /\ origin' = [i \in 1..Len(r.keypoints) |-> -1]
              /\ outcome' = IF r.raised THEN "raised" ELSE "returned"
              /\ backend' = FullSources(est[1], full)
              /\ scene' = Seen(full)
              /\ last_full' = Some(full)
    /\ est' = Some(SelfAfterDetection(est[1]))
    /\ call' = [call EXCEPT !.entry = "PoseEstimator.detect_poses"]
    /\ full_calls' = full_calls + 1
    /\ pc' = "returned"
    /\ UNCHANGED << bi, keypoints_list, scores_list, origin_list, box_log,
                    projected, region_calls, caught, shapes, loads, calls >>

\* estimator.detect_poses_from_boxes(image, boxes) is entered, lines 639-658;
\* KeypointrcnnBox or FromBoxesSingle run its body
CallDetectPosesFromBoxes ==
    /\ pc = "ready" /\ calls < MaxCalls
    /\ \E b \in MethodBoxLists :
          call' = [call EXCEPT !.entry = "PoseEstimator.detect_poses_from_boxes",
                               !.boxes = b]
    /\ est' = Some(SelfAfterDetection(est[1]))
    /\ pc' = "boxes"
    /\ UNCHANGED << scene, last_full, bi, keypoints_list, scores_list,
                    origin_list, box_log, keypoints, scores, origin, backend,
                    projected, region_calls, full_calls, caught, outcome,
                    shapes, loads, calls >>

\* the method is left, by its return or by the error it raised, and the
\* caller is free to call the estimator again, on another image
BackToCaller ==
    /\ pc \in {"returned", "full", "done"}
    /\ est' = Some(SelfAfterDetection(est[1]))
    /\ call' = [entry |-> "PoseEstimator", boxes |-> << >>,
                done |-> call.done \cup {call.entry}]
    /\ calls' = calls + 1
    /\ pc' = "ready"
    /\ scene' = None /\ last_full' = None /\ bi' = 0
    /\ keypoints_list' = << >> /\ scores_list' = << >> /\ origin_list' = << >>
    /\ box_log' = << >> /\ keypoints' = << >> /\ scores' = << >>
    /\ origin' = << >> /\ backend' = << >>
    /\ region_calls' = 0 /\ full_calls' = 0
    /\ caught' = "none" /\ outcome' = "none" /\ shapes' = << >>
    /\ UNCHANGED << projected, loads >>

NextMethods ==
    \/ CallDetectPoses
    \/ CallDetectPosesFromBoxes
    \/ KeypointrcnnBox
    \/ FromBoxesSingle
    \/ BackToCaller

SpecMethods == InitMethods /\ [][NextMethods]_vars

\* C20: after construction, no step of a PoseEstimator.detect_poses or
\* PoseEstimator.detect_poses_from_boxes call changes model_name, the
\* backend-kind flags, device, conf_threshold, keypoint_threshold,
\* advanced_params or draw_skeleton, and none loads a model again: the
\* handle is the one the constructor stored.
C20_DetectionLeavesConfiguration ==
    [][est' = est /\ loads' = loads]_vars

\* C20 witness: both methods have been called on the estimator, one after
\* the other, and both have returned
C20_Witness ==
    /\ pc = "ready"
    /\ call.done = {"PoseEstimator.detect_poses",
                    "PoseEstimator.detect_poses_from_boxes"}
    /\ calls >= 2
    /\ loads = 1


\* ---------------------------------------------------------------------------
\* Truncation of the full-image filter
\* ---------------------------------------------------------------------------

\* the rows of an instance as the estimator's full-image method returns them
ReturnedRows(e, p) ==
    IF e.is_rtmpose THEN p.keypoints ELSE KeypointrcnnKptsList(p.keypoints)

\* the instance passes the score check and the min-keypoint check
Survives(e, p) ==
    /\ p.score >= e.conf_threshold
    /\ VisibleKeypoints(ReturnedRows(e, p), e.keypoint_threshold)
          >= Get(e.advanced_params.min_keypoints, DEFAULT_MIN_KEYPOINTS)

\* the candidates of the inference that survive, in upstream order
Survivors == SelectSeq(last_full[1].instances, LAMBDA p : Survives(est[1], p))

\* the filter ran on an answer of the backend
Filtered == pc = "done" /\ outcome = "returned" /\ ~last_full[1].raised

\* C21: the poses the full-image filter returns are the first
\* min(max_poses, n) of the n candidates that survive the score and
\* min-keypoint checks, in upstream order, for every max_poses >= 0.
C21_FirstMaxPosesOfSurvivors ==
    Filtered
    => LET k == Min2(Get(est[1].advanced_params.max_poses, DEFAULT_MAX_POSES),
                     Len(Survivors))
       IN  /\ keypoints = [i \in 1..k |-> ReturnedRows(est[1], Survivors[i])]
           /\ scores = [i \in 1..k |-> Survivors[i].score]


\* ---------------------------------------------------------------------------
\* Full-image inferences of one box-guided call
\* ---------------------------------------------------------------------------

\* the boxes of the call whose iteration ran the full-image inference
FullInferenceBoxes == {k \in DOMAIN box_log : box_log[k] \in FullEvents}

\* C22: within one box-guided detection call the full-image inference is run
\* at most once, however many boxes yield zero region instances.
C22_FullInferenceAtMostOnce ==
    Cardinality(FullInferenceBoxes) <= 1


\* ---------------------------------------------------------------------------
\* The full-image match of one box
\* ---------------------------------------------------------------------------

\* a known box of 200 x 200 inside the image
BoxInside == << 100, 100, 300, 300 >>

\* a known box of 800 x 200 that leaves the image on the right: 199 x 200
\* once clamped
BoxBeyond == << 440, 100, 1240, 300 >>

MatchBoxes == {BoxInside, BoxBeyond}

\* what the full-image inference may find: instances inside BoxInside that
\* cover 25 %, 30 % and 35 % of it, one that covers it, one that covers the
\* part of BoxBeyond inside the image, one that meets neither box; the
\* scores tell them apart
MatchInstances ==
    {Instance(<< 100, 100, 200, 200 >>, Pct(95), KptsAll),
     Instance(<< 100, 100, 200, 220 >>, Pct(90), KptsAll),
     Instance(<< 100, 100, 200, 240 >>, Pct(85), KptsAll),
     Instance(<< 100, 100, 300, 300 >>, Pct(80), KptsAll),
     Instance(<< 440, 100, 639, 300 >>, Pct(75), KptsAll),
     Instance(<< 10, 310, 90, 470 >>, Pct(70), KptsAll)}

\* the default KeypointRCNN estimator
MatchEstimator ==
    PoseEstimatorInit(CHOOSE a \in ConstructorArgs(None) : a.model_name = None,
                      NoConfig, AllThere).est

\* the answers of the full-image inference: at most MaxFull instances, none
\* twice
MatchScenes ==
    UNION {{sc \in [1..n -> MatchInstances] :
               \A i, j \in 1..n : i # j => sc[i] # sc[j]} : n \in 0..MaxFull}

\* the loop of _detect_keypointrcnn_from_boxes has reached a box whose region
\* inference will find nobody, no pose has been appended yet
InitMatch ==
    /\ pc = "match"
    /\ call \in {[entry |-> "PoseEstimator.detect_poses_from_boxes",
                  boxes |-> << b >>] : b \in MatchBoxes}
    /\ est = Some(MatchEstimator)
    /\ last_full \in {Some([raised |-> FALSE, instances |-> sc]) :
                         sc \in MatchScenes}
    /\ scene = None /\ bi = 0
    /\ keypoints_list = << >> /\ scores_list = << >> /\ origin_list = << >>
    /\ box_log = << >> /\ keypoints = << >> /\ scores = << >>
    /\ origin = << >> /\ backend = << >> /\ projected = FALSE
    /\ region_calls = 0 /\ full_calls = 0
    /\ caught = "none" /\ outcome = "none" /\ shapes = << >>
    /\ loads = 1 /\ calls = 0

\* the iteration of the loop for that box (lines 822-935) and the return of
\* the method
MatchBox ==
    /\ pc = "match"
    /\ LET r == KeypointrcnnBoxIteration(est[1], Image, call.boxes[1],
                                         NoInference, last_full[1],
                                         keypoints_list, scores_list)
       IN  /\ box_log' = Append(box_log, r.event)
           /\ keypoints_list' = r.keypoints_list
           /\ scores_list' = r.scores_list
           /\ keypoints' = r.keypoints_list
           /\ scores' = r.scores_list
           /\ origin' = [i \in 1..Len(r.keypoints_list) |-> 0]
           /\ outcome' = IF r.raised THEN "raised" ELSE "returned"
    /\ bi' = 1
    /\ region_calls' = region_calls + 1
    /\ full_calls' = full_calls + 1
    /\ pc' = "done"
    /\ UNCHANGED << call, est, scene, last_full, origin_list, backend,
                    projected, caught, shapes, loads, calls >>

NextMatch == MatchBox

SpecMatch == InitMatch /\ [][NextMatch]_vars

\* the box of the call, as the caller gave it
KnownBox == call.boxes[1]

\* the overlap of the known box with an instance of the full-image answer
KnownIou(p) == Iou(KnownBox, p.box)

\* the overlap is strictly greater than 0.3
AboveThreshold(iou) == 10 * iou.num > 3 * iou.den

\* no instance of the answer overlaps the known box more than q does
GreatestIou(q) ==
    \A k \in 1..Len(last_full[1].instances) :
       ~RatioGreater(KnownIou(last_full[1].instances[k]).num,
                     KnownIou(last_full[1].instances[k]).den,
                     KnownIou(q).num, KnownIou(q).den)

\* the match of the box emits a pose iff some instance overlaps the known box
\* by more than 0.3, and the pose is that of an instance of greatest overlap
MatchAsClaimed ==
    /\ Len(scores) = 1
       <=> \E k \in 1..Len(last_full[1].instances) :
              AboveThreshold(KnownIou(last_full[1].instances[k]))
    /\ Len(scores) = 1
       => \E k \in 1..Len(last_full[1].instances) :
             /\ GreatestIou(last_full[1].instances[k])
             /\ scores[1] = last_full[1].instances[k].score
    /\ Len(scores) <= 1

\* the known box lies inside the image, the clamp of lines 826-829 leaves it
\* as it is
KnownBoxInsideImage == ClampBox(KnownBox, Image.width, Image.height) = KnownBox

C24_InferenceErrorsStayInside ==
    /\ (pc = "returned" /\ last_full[1].raised)
       => (outcome = "returned" /\ keypoints = << >> /\ scores = << >>)
    /\ (call.entry = "PoseEstimator.detect_poses_from_boxes"
        /\ \E k \in DOMAIN box_log : box_log[k] \in {"region_raised", "full_raised"})
       => (caught = "none" /\ keypoints = << >> /\ scores = << >>)


\* ---------------------------------------------------------------------------
\* A failing region inference among several boxes
\* ---------------------------------------------------------------------------

\* the region inference of some box of the call failed
SomeRegionFailed == \E k \in DOMAIN box_log : box_log[k] = "region_raised"

\* C25: when the inference of one box fails in a box-guided call of the
\* box-by-box variant, the failure counts as zero poses for that box: the
\* loop goes on to the last box and the method returns the poses collected
\* for the other boxes.
C25_FailureCostsOneBox ==
    (BoxGuided /\ pc = "full" /\ est[1].is_keypointrcnn /\ ~est[1].is_rtmpose
     /\ SomeRegionFailed)
    => /\ Len(box_log) = Len(call.boxes)
       /\ keypoints = keypoints_list


\* ---------------------------------------------------------------------------
\* Visibility to confidence in the KeypointRCNN adapter
\* ---------------------------------------------------------------------------

\* a raw visibility v of the detector, in the unit of the confidences
\* (fortieths): 0, 1, 2 are 0, 40, 80
Visibility(v) == 40 * v

\* the rows a detection may carry: the first n keypoints at visibility hi,
\* the others at visibility lo
VisibilityRows ==
    {Rows(17, n, Visibility(hi), Visibility(lo)) :
        n \in 0..17, hi \in {1, 2}, lo \in {0, 1}}

\* the three places where the adapter takes the rows of a detection: the
\* full-image method, the crop of a box, the full-image match of a box
AdapterPaths == {"full", "region", "fallback"}

\* an inference has answered with one detection, on one of the paths
InitAdapter ==
    /\ pc = "adapt"
    /\ call \in {[entry |-> path, boxes |-> << BoxInside >>] :
                    path \in AdapterPaths}
    /\ est = Some(MatchEstimator)
    /\ last_full \in {Some([raised |-> FALSE,
                            instances |-> << Instance(BoxInside, Pct(95), rows) >>]) :
                         rows \in VisibilityRows}
    /\ scene = None /\ bi = 0
    /\ keypoints_list = << >> /\ scores_list = << >> /\ origin_list = << >>
    /\ box_log = << >> /\ keypoints = << >> /\ scores = << >>
    /\ origin = << >> /\ backend = << >> /\ projected = FALSE
    /\ region_calls = 0 /\ full_calls = 0
    /\ caught = "none" /\ outcome = "none" /\ shapes = << >>
    /\ loads = 1 /\ calls = 0

\* _detect_keypointrcnn on the answer (lines 588-637)
AdaptFull ==
    /\ pc = "adapt" /\ call.entry = "full"
    /\ LET r == DetectKeypointrcnn(est[1], last_full[1])
       IN  /\ keypoints' = r.keypoints
           /\ scores' = r.scores
    /\ full_calls' = full_calls + 1
    /\ pc' = "done"
    /\ UNCHANGED << call, est, scene, last_full, bi, keypoints_list,
                    scores_list, origin_list, box_log, origin, backend,
                    projected, region_calls, caught, outcome, shapes, loads,
                    calls >>

\* the iteration of _detect_keypointrcnn_from_boxes for the box, the answer
\* being that of the crop (lines 849-872), with coordinates relative to the
\* crop
AdaptRegion ==
    /\ pc = "adapt" /\ call.entry = "region"
    /\ LET r == KeypointrcnnBoxIteration(est[1], Image, call.boxes[1],
                                         last_full[1], NoInference,
                                         << >>, << >>)
       IN  /\ keypoints' = r.keypoints_list
           /\ scores' = r.scores_list
           /\ box_log' = << r.event >>
    /\ region_calls' = region_calls + 1
    /\ pc' = "done"
    /\ UNCHANGED << call, est, scene, last_full, bi, keypoints_list,
                    scores_list, origin_list, origin, backend, projected,
                    full_calls, caught, outcome, shapes, loads, calls >>

\* the same iteration when the crop shows nobody and the answer is that of
\* the whole image (lines 876-935)
AdaptFallback ==
    /\ pc = "adapt" /\ call.entry = "fallback"
    /\ LET r == KeypointrcnnBoxIteration(est[1], Image, call.boxes[1],
                                         NoInference, last_full[1],
                                         << >>, << >>)
       IN  /\ keypoints' = r.keypoints_list
           /\ scores' = r.scores_list
           /\ box_log' = << r.event >>
    /\ region_calls' = region_calls + 1
    /\ full_calls' = full_calls + 1
    /\ pc' = "done"
    /\ UNCHANGED << call, est, scene, last_full, bi, keypoints_list,
                    scores_list, origin_list, origin, backend, projected,
                    caught, outcome, shapes, loads, calls >>

NextAdapter ==
    \/ AdaptFull
    \/ AdaptRegion
    \/ AdaptFallback

SpecAdapter == InitAdapter /\ [][NextAdapter]_vars

\* the raw rows of the detection
RawRows == last_full[1].instances[1].keypoints

\* C26: on the full-image path and on the region path, fallback included,
\* the KeypointRCNN adapter returns every raw visibility v in {0, 1, 2} as the
\* confidence v / 2, and every confidence it returns lies in [0, 1].
C26_VisibilityHalved ==
    pc = "done"
    => \A i \in 1..Len(keypoints) : \A j \in 1..Len(keypoints[i]) :
          /\ 2 * keypoints[i][j][3] = RawRows[j][3]
          /\ keypoints[i][j][3] >= 0
          /\ keypoints[i][j][3] <= Pct(100)


\* ---------------------------------------------------------------------------
\* _letterbox and the mapping of keypoints back to the image
\* ---------------------------------------------------------------------------

\* the greatest side of an image or crop given to _letterbox
MaxSide == 5

\* int(round(n / d)) for d > 0: Python rounds to the nearest integer, a half
\* to the even one.  The quotient is taken exactly.
RoundHalfEven(n, d) ==
    LET q == n \div d
        rem == n % d
    IN  IF 2 * rem < d THEN q
        ELSE IF 2 * rem > d THEN q + 1
        ELSE IF q % 2 = 0 THEN q ELSE q + 1

\* _letterbox(img, new_shape, stride) for an image of w x h and an integer
\* new_shape (lines 1115-1144).  r = min(new_shape / h, new_shape / w) is
\* new_shape / max(w, h); dw and dh are kept doubled, as integers.
\* cv2.resize is called when the size changes and fails on an empty size.
Letterbox(w, h, new_shape) ==
    LET m == Max2(w, h)
        new_w == RoundHalfEven(w * new_shape, m)
        new_h == RoundHalfEven(h * new_shape, m)
        dw2 == new_shape - new_w
        dh2 == new_shape - new_h
        top == RoundHalfEven(5 * dh2 - 1, 10)
        bottom == RoundHalfEven(5 * dh2 + 1, 10)
        left == RoundHalfEven(5 * dw2 - 1, 10)
        right == RoundHalfEven(5 * dw2 + 1, 10)
    IN  [raised |-> << w, h >> # << new_w, new_h >> /\ (new_w <= 0 \/ new_h <= 0),
         new_unpad |-> << new_w, new_h >>,
         top |-> top, bottom |-> bottom, left |-> left, right |-> right,
         width |-> new_w + left + right,
         height |-> new_h + top + bottom]

\* where the resize to new_size and the leading pad put the coordinate x of
\* an image of side size, as the ratio num / den
LetterboxForward(x, size, new_size, pad) ==
    [num |-> x * new_size + pad * size, den |-> size]

\* (x - pad) / r + x1 with r = min(imgsz / w, imgsz / h) and
\* pad = (imgsz - size * r) / 2 (lines 457-467, 721-733), for x = at.num /
\* at.den, as a ratio; m is max(w, h)
LetterboxInverse(at, size, m, imgsz, x1) ==
    [num |-> 2 * m * at.num - at.den * imgsz * (m - size)
             + x1 * 2 * at.den * imgsz,
     den |-> 2 * at.den * imgsz]

\* the square sizes asked of _letterbox
TargetSizes == {2, 8}

\* the corner of the crop in the image: the image itself, or a box
CropOrigins == {<< 0, 0 >>, << 10, 20 >>}

\* a keypoint (x, y) of a crop of width x height, in the crop's coordinates
LetterboxCalls ==
    UNION {{[entry |-> "_letterbox", width |-> w, height |-> h,
             new_shape |-> t, crop |-> o, x |-> x, y |-> y] :
                x \in 0..w, y \in 0..h, t \in TargetSizes, o \in CropOrigins} :
           w \in 1..MaxSide, h \in 1..MaxSide}

InitLetterbox ==
    /\ pc = "letterbox"
    /\ call \in LetterboxCalls
    /\ Fresh

\* the crop is letterboxed, the keypoint found at the place where the
\* letterbox put it is mapped back to the image
LetterboxPoint ==
    /\ pc = "letterbox"
    /\ LET l == Letterbox(call.width, call.height, call.new_shape)
           m == Max2(call.width, call.height)
           fx == LetterboxForward(call.x, call.width, l.new_unpad[1], l.left)
           fy == LetterboxForward(call.y, call.height, l.new_unpad[2], l.top)
       IN  IF l.raised
           THEN /\ outcome' = "raised"
                /\ UNCHANGED keypoints
           ELSE /\ outcome' = "returned"
                /\ keypoints' =
                      << << LetterboxInverse(fx, call.width, m,
                                             call.new_shape, call.crop[1]),
                            LetterboxInverse(fy, call.height, m,
                                             call.new_shape, call.crop[2]) >> >>
    /\ pc' = "done"
    /\ UNCHANGED << call, est, scene, last_full, bi, keypoints_list,
                    scores_list, origin_list, box_log, scores, origin,
                    backend, projected, region_calls, full_calls, caught,
                    shapes, loads, calls >>

NextLetterbox == LetterboxPoint

SpecLetterbox == InitLetterbox /\ [][NextLetterbox]_vars

\* C27: a point of the image, sent through the letterbox that _letterbox
\* applies (resize to the rounded size, integer leading pad) and back through
\* the detector's inverse, the crop origin added, is the point itself.
C27_RoundTripReturnsPoint ==
    (pc = "done" /\ outcome = "returned")
    => /\ keypoints[1][1].num = (call.x + call.crop[1]) * keypoints[1][1].den
       /\ keypoints[1][2].num = (call.y + call.crop[2]) * keypoints[1][2].den

\* what _letterbox makes of the call's image
Letterboxed == Letterbox(call.width, call.height, call.new_shape)

\* the difference of two integers, without sign
Distance(a, b) == IF a >= b THEN a - b ELSE b - a

\* C28: for every image of at least 1 x 1 and every square target, _letterbox
\* does not fail, the resized image has both sides >= 1, the padded output is
\* target x target, and the two pads of an axis differ by at most 1.
C28_LetterboxTotal ==
    pc = "done"
    => /\ outcome = "returned"
       /\ Letterboxed.new_unpad[1] >= 1 /\ Letterboxed.new_unpad[2] >= 1
       /\ Letterboxed.width = call.new_shape
       /\ Letterboxed.height = call.new_shape
       /\ Distance(Letterboxed.left, Letterboxed.right) <= 1
       /\ Distance(Letterboxed.top, Letterboxed.bottom) <= 1


\* ---------------------------------------------------------------------------
\* The rows of the YOLOv7 detector
\* ---------------------------------------------------------------------------

\* the greatest number of detections the detector returns for one image
MaxDet == 3

\* the side of the letterbox the YOLOv7 loader computes when no img_size is
\* configured
YOLOV7_IMG_SIZE == 640

\* the detections the non-maximum suppression may keep, each with its own
\* confidence and its own keypoints
Yolov7Detections ==
    {Instance(<< 0, 0, 1, 1 >>, Pct(95), Rows(17, 17, Pct(90), 0)),
     Instance(<< 0, 0, 1, 1 >>, Pct(90), Rows(17, 15, Pct(90), 0)),
     Instance(<< 0, 0, 1, 1 >>, Pct(85), Rows(17, 13, Pct(90), 0)),
     Instance(<< 0, 0, 1, 1 >>, Pct(80), Rows(17, 11, Pct(90), 0)),
     Instance(<< 0, 0, 1, 1 >>, Pct(75), Rows(17, 9, Pct(90), 0)),
     Instance(<< 0, 0, 1, 1 >>, Pct(70), Rows(17, 7, Pct(90), 0))}

\* the outputs of the suppression for one image: at most MaxDet rows, the
\* most confident first
Yolov7Outputs ==
    UNION {{det \in [1..n -> Yolov7Detections] :
               \A i, k \in 1..n : i < k => det[i].score > det[k].score} :
           n \in 0..MaxDet}

\* one keypoint row moved from the letterbox to the image (lines 456-467,
\* 721-733): the coordinates become ratios, the confidence stays
Yolov7Row(kpt, w, h, imgsz, x1, y1) ==
    << LetterboxInverse([num |-> kpt[1], den |-> 1], w, Max2(w, h), imgsz, x1),
       LetterboxInverse([num |-> kpt[2], den |-> 1], h, Max2(w, h), imgsz, y1),
       kpt[3] >>

\* the loop of lines 451-470 and 716-738 over the rows of det, for an image
\* or crop of w x h at (x1, y1): j and conf come from
\* enumerate(reversed(det[:, :6])), the keypoints from det[j, 6:]
Yolov7Loop(det, w, h, imgsz, x1, y1) ==
    [keypoints |-> [j \in 1..Len(det) |->
                       [k \in 1..Len(det[j].keypoints) |->
                           Yolov7Row(det[j].keypoints[k], w, h, imgsz, x1, y1)]],
     scores |-> [j \in 1..Len(det) |-> det[Len(det) + 1 - j].score]]

\* the detector and the suppression have answered, for the whole image or
\* for the crop of BoxInside
InitYolov7 ==
    /\ pc = "rows"
    /\ call \in {[entry |-> "PoseEstimator._detect_yolov7_pose",
                  boxes |-> << >>],
                 [entry |-> "PoseEstimator._detect_yolov7_pose_from_boxes",
                  boxes |-> << BoxInside >>]}
    /\ last_full \in {Some([raised |-> FALSE, instances |-> det]) :
                         det \in Yolov7Outputs}
    /\ est = None /\ scene = None /\ bi = 0
    /\ keypoints_list = << >> /\ scores_list = << >> /\ origin_list = << >>
    /\ box_log = << >> /\ keypoints = << >> /\ scores = << >>
    /\ origin = << >> /\ backend = << >> /\ projected = FALSE
    /\ region_calls = 0 /\ full_calls = 0
    /\ caught = "none" /\ outcome = "none" /\ shapes = << >>
    /\ loads = 1 /\ calls = 0

\* the rows are turned into the lists the method returns, on the full-image
\* path
Yolov7FullRows ==
    /\ pc = "rows" /\ call.boxes = << >>
    /\ LET r == Yolov7Loop(last_full[1].instances, Image.width, Image.height,
                           YOLOV7_IMG_SIZE, 0, 0)
       IN  /\ keypoints' = r.keypoints
           /\ scores' = r.scores
    /\ full_calls' = full_calls + 1
    /\ outcome' = "returned"
    /\ pc' = "done"
    /\ UNCHANGED << call, est, scene, last_full, bi, keypoints_list,
                    scores_list, origin_list, box_log, origin, backend,
                    projected, region_calls, caught, shapes, loads, calls >>

\* the same on the box-guided path, for the crop of the call's box
Yolov7RegionRows ==
    /\ pc = "rows" /\ call.boxes # << >>
    /\ LET c == ClampBox(call.boxes[1], Image.width, Image.height)
           r == Yolov7Loop(last_full[1].instances, c[3] - c[1], c[4] - c[2],
                           YOLOV7_IMG_SIZE, c[1], c[2])
       IN  /\ keypoints' = r.keypoints
           /\ scores' = r.scores
    /\ region_calls' = region_calls + 1
    /\ outcome' = "returned"
    /\ pc' = "done"
    /\ UNCHANGED << call, est, scene, last_full, bi, keypoints_list,
                    scores_list, origin_list, box_log, origin, backend,
                    projected, full_calls, caught, shapes, loads, calls >>

NextYolov7 ==
    \/ Yolov7FullRows
    \/ Yolov7RegionRows

SpecYolov7 == InitYolov7 /\ [][NextYolov7]_vars

=============================================================================
